---- MODULE Spec2Model ----
(***************************************************************************)
(* Model of the prompt-correction service dspy_prompt_fixer.               *)
(*                                                                         *)
(* A Python str is a sequence of tokens.  A token is one character, except *)
(* that the literal "Corrected prompt:" and the fixed instruction text of  *)
(* the fallback prompt are one token each (neither is whitespace nor a     *)
(* quote, and "Corrected prompt:" cannot overlap itself).  A Python value  *)
(* that may be None is a record [none, s].                                 *)
(***************************************************************************)
EXTENDS Integers, Sequences, FiniteSets, TLC

VARIABLES
    use_optimization,   \* PromptFixer.use_optimization
    compiled_module,    \* PromptFixer.compiled_module
    settings_lm,        \* dspy.settings.lm
    compile_failed,     \* history: some compile call on this instance failed
    call,               \* what the latest call did and how it ended
    lists,              \* the list objects: the three corpus lists and a returned one
    held,               \* the list object the caller's latest result refers to
    cop,                \* what the latest corpus call did and how it ended
    fixing,             \* a fix_prompt call in progress in a thread of its own
    compiling,          \* a compile_with_examples call in progress in another thread
    installed,          \* history: the values compiled_module has had
    counting,           \* a get_example_count call in progress in a thread of its own
    parse,              \* a response and what the fallback tier extracts from it
    adapter,            \* a ClaudeLM instance and what its latest call did
    service,            \* the globals of main.py: claude_lm and prompt_fixer
    http                \* what the latest request handler did and answered

fixer_vars == <<use_optimization, compiled_module, settings_lm, compile_failed, call>>
corpus_vars == <<lists, held, cop>>
thread_vars == <<fixing, compiling, installed, counting>>
service_vars == <<adapter, service, http>>

vars == <<fixer_vars, corpus_vars, thread_vars, parse, service_vars>>

\* ------------------------------------------------------------------ bounds

MaxPromptLen == 2
MaxRespLen == 2
MaxExamples == 2

\* ----------------------------------------------------------------- strings

Marker == "Corrected prompt:"
\* the delimiter literal of the source: the three characters U+00E2 U+2020
\* U+2019 (the UTF-8 bytes of the arrow U+2192 read as cp1252)
ArrowLiteral == "U+00E2 U+2020 U+2019"
Arrow == "U+2192"      \* the arrow character itself
Space == " "
DQuote == "\""
SQuote == "'"
Letter == "a"
Instructions == "You are a helpful assistant ... Raw prompt: "

RECURSIVE SeqsUpTo(_, _)
SeqsUpTo(S, n) ==
    IF n = 0 THEN {<<>>}
    ELSE LET shorter == SeqsUpTo(S, n - 1)
         IN  shorter \cup {Append(s, x) : s \in {t \in shorter : Len(t) = n - 1}, x \in S}

PyNone == [none |-> TRUE, s |-> <<>>]
PyStr(s) == [none |-> FALSE, s |-> s]

RECURSIVE LStrip(_, _)
LStrip(s, chars) ==
    IF s # <<>> /\ Head(s) \in chars THEN LStrip(Tail(s), chars) ELSE s

RECURSIVE RStrip(_, _)
RStrip(s, chars) ==
    IF s # <<>> /\ s[Len(s)] \in chars THEN RStrip(SubSeq(s, 1, Len(s) - 1), chars) ELSE s

\* str.strip(chars); str.strip() is Strip(s, Whitespace)
Strip(s, chars) == RStrip(LStrip(s, chars), chars)

Whitespace == {Space}

Contains(s, tok) == \E i \in 1..Len(s) : s[i] = tok

\* s.split(tok)[-1]: what follows the last occurrence of tok (s itself if none)
AfterLast(s, tok) ==
    IF Contains(s, tok)
    THEN LET i == CHOOSE k \in 1..Len(s) :
                      s[k] = tok /\ \A j \in (k + 1)..Len(s) : s[j] # tok
         IN  SubSeq(s, i + 1, Len(s))
    ELSE s

Chars == {Letter, Space, DQuote, SQuote, Marker, ArrowLiteral}

\* ------------------------------------------------------------ exceptions

NoExc == [type |-> "None", msg |-> ""]
Exc(type, msg) == [type |-> type, msg |-> msg]

\* ---------------------------------------------------------------- ClaudeLM

NoMessages == [none |-> TRUE, list |-> <<>>]

\* the loop of __call__ over messages: the last system entry's content
RECURSIVE SystemOf(_)
SystemOf(messages) ==
    IF messages = <<>> THEN PyNone
    ELSE LET m == messages[Len(messages)]
         IN  IF m.role = "system" THEN PyStr(m.content)
             ELSE SystemOf(SubSeq(messages, 1, Len(messages) - 1))

\* mutant: the system entries stay among the turns
UserMessages_KeepsSystem(messages) == messages

\* the loop of __call__ over messages: the entries that are not system entries
UserMessages(messages) == SelectSeq(messages, LAMBDA m : m.role # "system")

\* mutant: a prompt given along with messages is sent as one more user turn
ApiParams_PromptAppended(prompt, messages) ==
    IF ~messages.none
    THEN LET system_message == SystemOf(messages.list)
         IN  [messages |-> UserMessages(messages.list)
                             \o (IF prompt.none THEN <<>>
                                  ELSE <<[role |-> "user", content |-> prompt.s]>>),
              system   |-> IF ~system_message.none /\ system_message.s # <<>>
                           THEN system_message ELSE PyNone]
    ELSE [messages |-> <<[role |-> "user", content |-> prompt.s]>>,
          system   |-> PyNone]

\* the keyword arguments of client.messages.create
ApiParams(prompt, messages) ==
    IF ~messages.none
    THEN LET system_message == SystemOf(messages.list)
         IN  [messages |-> UserMessages(messages.list),
              system   |-> IF ~system_message.none /\ system_message.s # <<>>
                           THEN system_message ELSE PyNone]
    ELSE [messages |-> <<[role |-> "user", content |-> prompt.s]>>,
          system   |-> PyNone]

\* `except Exception as e: raise RuntimeError(f"Error calling Claude API: ...")`
WrapCall(exc) == Exc("RuntimeError", "Error calling Claude API")

\* mutant: the text of the last content segment is returned
ResponseText_Last(content) ==
    IF Len(content) > 0 THEN content[Len(content)] ELSE <<>>

\* lines 94-97: the text of the first content segment, "" if there is none
ResponseText(content) ==
    IF Len(content) > 0 THEN content[1] ELSE <<>>

\* ClaudeLM.__call__(prompt, messages) when the provider answers `provider`
\* ([raises, content]: it raises, or returns these content segments)
ClaudeLMCall(prompt, messages, provider) ==
    IF messages.none /\ prompt.none
    THEN [requests |-> <<>>, text |-> <<>>,
          exc |-> WrapCall(Exc("ValueError",
                               "Either 'prompt' or 'messages' must be provided"))]
    ELSE LET request == ApiParams(prompt, messages)
         IN  IF provider.raises
             THEN [requests |-> <<request>>, text |-> <<>>,
                   exc |-> WrapCall(Exc("Exception", "provider"))]
             ELSE [requests |-> <<request>>,
                   text |-> ResponseText(provider.content),
                   exc |-> NoExc]

\* ClaudeLM.__init__: model, temperature and max_tokens of the instance
DefaultConfig ==
    [model |-> "claude-3-haiku-20240307", temperature |-> "0.7", max_tokens |-> "4096"]

\* **kwargs without temperature and max_tokens
NoKwargs == [temperature |-> "absent", max_tokens |-> "absent"]

\* mutant: the overrides of a call are kept on the instance
ConfigAfterCall_KeepsOverrides(config, kwargs) ==
    [config EXCEPT
        !.temperature = IF kwargs.temperature # "absent" THEN kwargs.temperature ELSE @,
        !.max_tokens = IF kwargs.max_tokens # "absent" THEN kwargs.max_tokens ELSE @]

\* the instance attributes after __call__: it assigns none of them
ConfigAfterCall(config, kwargs) == config

\* lines 51-52 and the model argument: what the provider call is made with
EffectiveParams(config, kwargs) ==
    [model |-> config.model,
     temperature |-> IF kwargs.temperature # "absent"
                     THEN kwargs.temperature ELSE config.temperature,
     max_tokens |-> IF kwargs.max_tokens # "absent"
                    THEN kwargs.max_tokens ELSE config.max_tokens]

NoProvider == [raises |-> FALSE, content |-> <<>>]

\* the instance is between calls
NoLmCall ==
    [op |-> "none", prompt |-> PyNone, messages |-> NoMessages, kwargs |-> NoKwargs,
     provider |-> NoProvider,     \* what the provider did, if it was called
     params |-> <<>>,             \* model, temperature, max_tokens of each provider call
     requests |-> <<>>,           \* messages and system of each provider call
     text |-> PyNone,             \* the string the call returned
     exc |-> NoExc]               \* the exception the call raised

NewAdapter == [config |-> DefaultConfig, call |-> NoLmCall]

\* ------------------------------------------------------------- PromptFixer

NoModule == "None"                  \* compiled_module = None
PlainModule == "fix_prompt_module"  \* self.fix_prompt_module = dspy.Predict(...)
OptimizedModules == {"compiled_1", "compiled_2"}   \* what mipro.compile may return

NoInfo == [use_optimization |-> FALSE, has_compiled_module |-> FALSE, module_type |-> ""]

\* the caller is between calls
NoCall ==
    [op |-> "none", raw |-> PyNone, examples |-> <<>>,
     invoked |-> <<>>,            \* predictor invocations: <<[module, raw_prompt]>>
     pred_raised |-> FALSE,       \* the invoked predictor raised
     predicted |-> PyNone,        \* the corrected_prompt field it returned
     lm_prompts |-> <<>>,         \* prompts passed to dspy.settings.lm directly
     lm_response |-> PyNone,      \* the text that call returned, if it returned
     requests |-> <<>>,           \* provider calls made by the language model
     provider |-> NoProvider,     \* what the provider did, if it was called
     optimizer_calls |-> <<>>,    \* mipro.compile calls: <<[student, trainset]>>
     compiled |-> NoModule,       \* what mipro.compile returned, if it returned
     failed_at |-> "",            \* compile: the step of the try block that raised
     caught |-> NoExc,            \* compile: the exception the handlers caught
     exc |-> NoExc,               \* the exception the call raised to its caller
     result |-> PyNone,           \* the string the call returned
     info |-> NoInfo]             \* the dict get_module_info returned

\* mutant: the whitespace-only case is not tested
IsBlank_NoStrip(raw_prompt) ==
    raw_prompt.none \/ raw_prompt.s = <<>>

\* `not raw_prompt or not raw_prompt.strip()`
IsBlank(raw_prompt) ==
    raw_prompt.none \/ raw_prompt.s = <<>> \/ Strip(raw_prompt.s, Whitespace) = <<>>

\* mutant: use_optimization is not consulted
SelectModule_IgnoresFlag(cm, uo) ==
    IF cm # NoModule THEN cm ELSE PlainModule

\* `if self.compiled_module and self.use_optimization: ... else: ...`
SelectModule(cm, uo) ==
    IF cm # NoModule /\ uo THEN cm ELSE PlainModule

\* mutant: the raw prompt is not interpolated
FallbackPrompt_WithoutRaw(raw_prompt) ==
    <<Instructions, DQuote, DQuote, "\n", "\n", Marker>>

\* the f-string of _fix_prompt_fallback
FallbackPrompt(raw_prompt) ==
    <<Instructions, DQuote>> \o raw_prompt \o <<DQuote, "\n", "\n", Marker>>

\* `.strip('"').strip("'").strip()`
StripQuotes(s) == Strip(Strip(Strip(s, {DQuote}), {SQuote}), Whitespace)

\* the extraction of the corrected prompt from the language model's response
ParseResponse(response) ==
    IF Contains(response, Marker)
    THEN StripQuotes(Strip(AfterLast(response, Marker), Whitespace))
    ELSE LET trimmed == Strip(response, Whitespace)
         IN  IF Contains(trimmed, ArrowLiteral)
             THEN StripQuotes(Strip(AfterLast(trimmed, ArrowLiteral), Whitespace))
             ELSE trimmed

FallbackError == Exc("RuntimeError", "Error in fallback prompt fixing")

\* mutant: the fallback's exception is re-raised as it is
WrapFallback_Reraise(exc) == exc

\* `except Exception as e: raise RuntimeError(f"Error in fallback ...")`
WrapFallback(exc) == FallbackError

\* _fix_prompt_fallback(raw_prompt) with dspy.settings.lm = lm
FixPromptFallback(lm, raw_prompt, provider) ==
    IF lm = "None"
    THEN [lm_prompts |-> <<>>, lm_response |-> PyNone, requests |-> <<>>,
          exc |-> WrapFallback(Exc("RuntimeError", "No language model configured")),
          result |-> PyNone]
    ELSE LET prompt == FallbackPrompt(raw_prompt)
             r == ClaudeLMCall(PyStr(prompt), NoMessages, provider)
         IN  IF r.exc # NoExc
             THEN [lm_prompts |-> <<prompt>>, lm_response |-> PyNone,
                   requests |-> r.requests, exc |-> WrapFallback(r.exc),
                   result |-> PyNone]
             ELSE [lm_prompts |-> <<prompt>>, lm_response |-> PyStr(r.text),
                   requests |-> r.requests, exc |-> NoExc,
                   result |-> PyStr(ParseResponse(r.text))]

\* mutant: the plain predictor is retried after the optimized one raised
Invocations_PlainAfterOptimized(cm, uo, raw_prompt, pred) ==
    IF pred.raises /\ SelectModule(cm, uo) # PlainModule
    THEN <<[module |-> SelectModule(cm, uo), raw_prompt |-> raw_prompt],
           [module |-> PlainModule, raw_prompt |-> raw_prompt]>>
    ELSE <<[module |-> SelectModule(cm, uo), raw_prompt |-> raw_prompt]>>

\* the structured predictors the try block invokes, with their argument;
\* `pred` is the outcome of the invocation ([raises, corrected_prompt])
Invocations(cm, uo, raw_prompt, pred) ==
    <<[module |-> SelectModule(cm, uo), raw_prompt |-> raw_prompt]>>

\* `except Exception`: the fallback tier is entered when the predictor raised
EntersFallback(pred) == pred.raises

\* fix_prompt(raw_prompt) on a fixer in state (uo, cm)
FixPromptCall(uo, cm, lm, raw_prompt, pred, provider) ==
    LET base == [NoCall EXCEPT !.op = "fix_prompt", !.raw = raw_prompt]
    IN  IF IsBlank(raw_prompt)
        THEN [base EXCEPT !.exc = Exc("ValueError", "Raw prompt cannot be empty")]
        ELSE LET tried == [base EXCEPT
                     !.invoked = Invocations(cm, uo, raw_prompt.s, pred),
                     !.pred_raised = pred.raises]
             IN  IF ~EntersFallback(pred)
                 THEN [tried EXCEPT !.predicted = PyStr(pred.corrected_prompt),
                                    !.result = PyStr(pred.corrected_prompt)]
                 ELSE LET fb == FixPromptFallback(lm, raw_prompt.s, provider)
                      IN  [tried EXCEPT !.lm_prompts = fb.lm_prompts,
                                        !.lm_response = fb.lm_response,
                                        !.requests = fb.requests,
                                        !.provider = IF fb.requests # <<>>
                                                     THEN provider ELSE NoProvider,
                                        !.exc = fb.exc,
                                        !.result = fb.result]

\* get_module_info()
GetModuleInfo(uo, cm) ==
    [use_optimization |-> uo,
     has_compiled_module |-> cm # NoModule,
     module_type |-> "FixProgrammingPrompt"]

\* ---------------------------------------------------- compile_with_examples

\* an element of the `examples` argument: a dict (with or without the
\* "corrected_prompt" key), a dspy.Example, or something else
DictExample(r, c) ==
    [kind |-> "dict", has_keys |-> TRUE, raw_prompt |-> r, corrected_prompt |-> c]
DictMissingKey(r) ==
    [kind |-> "dict", has_keys |-> FALSE, raw_prompt |-> r, corrected_prompt |-> <<>>]
DspyExample(r, c) ==
    [kind |-> "Example", has_keys |-> TRUE, raw_prompt |-> r, corrected_prompt |-> c]
OtherObject ==
    [kind |-> "other", has_keys |-> FALSE, raw_prompt |-> <<>>, corrected_prompt |-> <<>>]

\* the exception the conversion of one element raises, NoExc if none
ConvertError(example) ==
    IF example.kind = "dict"
    THEN IF example.has_keys THEN NoExc ELSE Exc("KeyError", "corrected_prompt")
    ELSE IF example.kind = "Example" THEN NoExc
         ELSE Exc("ValueError", "Invalid example format")

\* the dspy.Example appended for one element
ConvertOne(example) ==
    IF example.kind = "dict"
    THEN DspyExample(example.raw_prompt, example.corrected_prompt)
    ELSE example

\* the loop building dspy_examples: the list, or the first exception raised
RECURSIVE ConvertExamples(_)
ConvertExamples(examples) ==
    IF examples = <<>> THEN [exc |-> NoExc, list |-> <<>>]
    ELSE LET first == ConvertError(examples[1])
         IN  IF first # NoExc THEN [exc |-> first, list |-> <<>>]
             ELSE LET rest == ConvertExamples(Tail(examples))
                  IN  IF rest.exc # NoExc THEN rest
                      ELSE [exc |-> NoExc,
                            list |-> <<ConvertOne(examples[1])>> \o rest.list]

\* mutant: the early return is missing
SkipsCompile_Never(uo) == FALSE

\* `if not self.use_optimization: return`
SkipsCompile(uo) == ~uo

\* mutant: only the ImportError handler is there
Caught_OnlyImportError(exc) == exc.type = "ImportError"

\* `except ImportError` / `except Exception`: the exceptions caught
Caught(exc) == TRUE

\* mutant: the handlers do not clear use_optimization
AfterCaught_Unchanged(uo) == uo

\* use_optimization after an exception was caught
AfterCaught(uo) == FALSE

\* mutant: a failed compile clears compiled_module
AfterCompile_ResetOnFailure(cm, failed_at, module) ==
    IF failed_at = "" THEN module ELSE NoModule

\* compiled_module after the steps of the try block, given the step that
\* raised ("" if none) and what mipro.compile returned
AfterCompile(cm, failed_at, module) ==
    IF failed_at = "" THEN module ELSE cm

\* compile_with_examples(examples) on a fixer in state (uo, cm); `optimizer`
\* is [kind, module]: the import fails, MIPROv2(...) raises, mipro.compile
\* raises, or it returns `module`
CompileCall(uo, cm, examples, optimizer) ==
    LET base == [NoCall EXCEPT !.op = "compile_with_examples", !.examples = examples]
        conv == ConvertExamples(examples)
        failed_at ==
            IF optimizer.kind = "ImportError" THEN "import"
            ELSE IF conv.exc # NoExc THEN "convert"
            ELSE IF optimizer.kind = "MIPROv2 raises" THEN "MIPROv2"
            ELSE IF optimizer.kind = "compile raises" THEN "compile"
            ELSE ""
        raised ==
            IF failed_at = "import" THEN Exc("ImportError", "dspy.teleprompt")
            ELSE IF failed_at = "convert" THEN conv.exc
            ELSE IF failed_at = "" THEN NoExc
            ELSE Exc("Exception", "optimizer")
        calls ==
            IF failed_at \in {"", "compile"}
            THEN <<[student |-> PlainModule, trainset |-> conv.list]>>
            ELSE <<>>
    IN  IF SkipsCompile(uo)
        THEN [call |-> base, use_optimization |-> uo, compiled_module |-> cm]
        ELSE IF raised = NoExc
        THEN [call |-> [base EXCEPT !.optimizer_calls = calls,
                                    !.compiled = optimizer.module],
              use_optimization |-> uo,
              compiled_module |-> AfterCompile(cm, failed_at, optimizer.module)]
        ELSE IF Caught(raised)
        THEN [call |-> [base EXCEPT !.optimizer_calls = calls,
                                    !.failed_at = failed_at, !.caught = raised],
              use_optimization |-> AfterCaught(uo),
              compiled_module |-> AfterCompile(cm, failed_at, optimizer.module)]
        ELSE [call |-> [base EXCEPT !.optimizer_calls = calls,
                                    !.failed_at = failed_at, !.exc = raised],
              use_optimization |-> uo,
              compiled_module |-> AfterCompile(cm, failed_at, optimizer.module)]

\* ------------------------------------------------------------------ corpus

\* The module-level lists of examples.py.  A prompt of the initial corpus is
\* one token (it holds letters and inner spaces only); the elements are
\* dspy.Example objects.

PROGRAMMING_EXAMPLES == <<
    DspyExample(<<"frogs in ruby">>,
                <<"procs in ruby">>),
    DspyExample(<<"rails and rels">>,
                <<"rails and routes">>),
    DspyExample(<<"how to use cads in ruby">>,
                <<"how to use procs in ruby">>),
    DspyExample(<<"ruby on rails gems">>,
                <<"ruby on rails gems">>),
    DspyExample(<<"javascript promises and async">>,
                <<"javascript promises and async">>),
    DspyExample(<<"react hooks and state">>,
                <<"react hooks and state">>),
    DspyExample(<<"python decorators and functions">>,
                <<"python decorators and functions">>),
    DspyExample(<<"docker containers and images">>,
                <<"docker containers and images">>),
    DspyExample(<<"git branches and merging">>,
                <<"git branches and merging">>),
    DspyExample(<<"sql queries and joins">>,
                <<"sql queries and joins">>),
    DspyExample(<<"api rest endpoints">>,
                <<"api rest endpoints">>),
    DspyExample(<<"microservices architecture">>,
                <<"microservices architecture">>),
    DspyExample(<<"machine learning algorithms">>,
                <<"machine learning algorithms">>),
    DspyExample(<<"data structures and algorithms">>,
                <<"data structures and algorithms">>),
    DspyExample(<<"web development frameworks">>,
                <<"web development frameworks">>)>>

SPEECH_ERROR_EXAMPLES == <<
    DspyExample(<<"how to create a new rails app">>,
                <<"how to create a new rails app">>),
    DspyExample(<<"what is dependency injection">>,
                <<"what is dependency injection">>),
    DspyExample(<<"how to debug javascript code">>,
                <<"how to debug javascript code">>),
    DspyExample(<<"what are design patterns">>,
                <<"what are design patterns">>),
    DspyExample(<<"how to optimize database queries">>,
                <<"how to optimize database queries">>),
    DspyExample(<<"explain restful api design">>,
                <<"explain restful api design">>),
    DspyExample(<<"what is continuous integration">>,
                <<"what is continuous integration">>),
    DspyExample(<<"how to write unit tests">>,
                <<"how to write unit tests">>),
    DspyExample(<<"explain version control systems">>,
                <<"explain version control systems">>)>>

TECHNICAL_CORRECTIONS == <<
    DspyExample(<<"lambda functions in python">>,
                <<"lambda functions in python">>),
    DspyExample(<<"closures and scope in javascript">>,
                <<"closures and scope in javascript">>),
    DspyExample(<<"inheritance and polymorphism">>,
                <<"inheritance and polymorphism">>),
    DspyExample(<<"recursion and iteration">>,
                <<"recursion and iteration">>),
    DspyExample(<<"asynchronous programming patterns">>,
                <<"asynchronous programming patterns">>),
    DspyExample(<<"memory management in programming">>,
                <<"memory management in programming">>),
    DspyExample(<<"algorithm complexity analysis">>,
                <<"algorithm complexity analysis">>),
    DspyExample(<<"software testing methodologies">>,
                <<"software testing methodologies">>),
    DspyExample(<<"database normalization">>,
                <<"database normalization">>),
    DspyExample(<<"network protocols and http">>,
                <<"network protocols and http">>)>>

\* the list objects: the three module-level lists, and the list a call
\* built and returned last
CorpusLists == {"PROGRAMMING_EXAMPLES", "SPEECH_ERROR_EXAMPLES", "TECHNICAL_CORRECTIONS"}
ListIds == CorpusLists \cup {"returned"}

InitialLists ==
    [id \in ListIds |->
        IF id = "PROGRAMMING_EXAMPLES" THEN PROGRAMMING_EXAMPLES
        ELSE IF id = "SPEECH_ERROR_EXAMPLES" THEN SPEECH_ERROR_EXAMPLES
        ELSE IF id = "TECHNICAL_CORRECTIONS" THEN TECHNICAL_CORRECTIONS
        ELSE <<>>]

NoCounts == [programming |-> 0, speech |-> 0, technical |-> 0, total |-> 0]

\* the caller is between corpus calls
NoCorpusCall ==
    [op |-> "none", category |-> "", raw_prompt |-> <<>>, corrected_prompt |-> <<>>,
     exc |-> NoExc,            \* the exception the call raised
     counts |-> NoCounts]      \* the dict get_example_count returned

\* the caller holds no list; otherwise: the list object it got last, and how
\* often it has changed a list it got
NoList == [ref |-> "none", mutations |-> 0]

\* mutant: the concatenation skips the speech examples
Concatenation_WithoutSpeech(ls) ==
    ls["PROGRAMMING_EXAMPLES"] \o ls["TECHNICAL_CORRECTIONS"]

\* `PROGRAMMING_EXAMPLES + SPEECH_ERROR_EXAMPLES + TECHNICAL_CORRECTIONS`
Concatenation(ls) ==
    ls["PROGRAMMING_EXAMPLES"] \o ls["SPEECH_ERROR_EXAMPLES"] \o ls["TECHNICAL_CORRECTIONS"]

\* mutant: the lists are joined in place (`+=`) and the first one is returned
GetAllExamples_InPlace(ls) ==
    [ref |-> "PROGRAMMING_EXAMPLES",
     lists |-> [ls EXCEPT !["PROGRAMMING_EXAMPLES"] = Concatenation(ls)]]

\* get_all_examples(): the list object returned and the objects afterwards;
\* `+` builds a new list
GetAllExamples(ls) ==
    [ref |-> "returned", lists |-> [ls EXCEPT !["returned"] = Concatenation(ls)]]

\* the keys of the `categories` dict that name a module-level list
CategoryList(category) ==
    IF category = "programming" THEN "PROGRAMMING_EXAMPLES"
    ELSE IF category = "speech" THEN "SPEECH_ERROR_EXAMPLES"
    ELSE "TECHNICAL_CORRECTIONS"

RealCategories == {"programming", "speech", "technical"}

\* mutant: an unknown category raises KeyError (`categories[category]`)
UnknownCategoryRead_Raises(ls) ==
    [ref |-> "none", lists |-> ls, exc |-> Exc("KeyError", "category")]

\* `categories.get(category, [])` for a key the dict does not have
UnknownCategoryRead(ls) ==
    [ref |-> "returned", lists |-> [ls EXCEPT !["returned"] = <<>>], exc |-> NoExc]

\* mutant: a copy of the module-level list is returned
RealCategoryRead_Copy(ls, category) ==
    [ref |-> "returned", lists |-> [ls EXCEPT !["returned"] = ls[CategoryList(category)]],
     exc |-> NoExc]

\* `categories.get(category, [])` for a real category: the dict's value is
\* the module-level list itself
RealCategoryRead(ls, category) ==
    [ref |-> CategoryList(category), lists |-> ls, exc |-> NoExc]

\* get_examples_by_category(category)
GetExamplesByCategory(ls, category) ==
    IF category \in RealCategories
    THEN RealCategoryRead(ls, category)
    ELSE IF category = "all"
    THEN [ref |-> GetAllExamples(ls).ref, lists |-> GetAllExamples(ls).lists,
          exc |-> NoExc]
    ELSE UnknownCategoryRead(ls)

\* mutant: the new example is put at the front of the list
Appended_AtFront(list, example) == <<example>> \o list

\* list.append(example)
Appended(list, example) == Append(list, example)

\* mutant: "all" is accepted on write and goes to the programming list
AddTarget_AllAccepted(category) ==
    IF category \in RealCategories THEN CategoryList(category)
    ELSE IF category = "all" THEN "PROGRAMMING_EXAMPLES"
    ELSE "none"

\* the if/elif chain of add_example: the list appended to, "none" for else
AddTarget(category) ==
    IF category \in RealCategories THEN CategoryList(category) ELSE "none"

\* add_example(raw_prompt, corrected_prompt, category)
AddExample(ls, raw_prompt, corrected_prompt, category) ==
    LET example == DspyExample(raw_prompt, corrected_prompt)
        target == AddTarget(category)
    IN  IF target # "none"
        THEN [lists |-> [ls EXCEPT ![target] = Appended(ls[target], example)],
              exc |-> NoExc]
        ELSE [lists |-> ls, exc |-> Exc("ValueError", "Unknown category")]

\* mutant: the total counts the programming examples twice
TotalCount_ProgrammingTwice(ls) ==
    Len(ls["PROGRAMMING_EXAMPLES"]) + Len(Concatenation(ls))

\* `len(get_all_examples())`
TotalCount(ls) == Len(Concatenation(ls))

\* get_example_count()
GetExampleCount(ls) ==
    [programming |-> Len(ls["PROGRAMMING_EXAMPLES"]),
     speech |-> Len(ls["SPEECH_ERROR_EXAMPLES"]),
     technical |-> Len(ls["TECHNICAL_CORRECTIONS"]),
     total |-> TotalCount(ls)]


\* ----------------------------------------------------------------- threads

\* no fix_prompt call is in progress in the fixing thread
IdleFixing ==
    [pc |-> "idle",
     first |-> NoModule,          \* what the test of line 108 read in compiled_module
     invoked |-> "nothing yet",   \* the predictor the call invoked
     calls |-> 0]

\* no compile_with_examples call is in progress in the compiling thread
IdleCompiling ==
    [pc |-> "idle",
     result |-> NoModule,         \* what mipro.compile returned
     failed_at |-> "",            \* the step of the try block that raised
     calls |-> 0]

\* no get_example_count call is in progress in the counting thread
IdleCounting ==
    [pc |-> "idle", programming |-> 0, speech |-> 0, technical |-> 0,
     partial |-> <<>>, total |-> 0]

\* no response is being parsed
NoParse == [response |-> <<>>, parsed |-> PyNone]

\* ---------------------------------------------------------------- service

\* main.py at import: `claude_lm = None`, `prompt_fixer = None`; instances
\* are numbered in the order they are constructed, 0 is None
NoService == [claude_lm |-> 0, prompt_fixer |-> 0, initialized |-> 0]

\* no request is being answered
NoRequest ==
    [endpoint |-> "none", status |-> 0, detail |-> "", body |-> PyNone,
     confidence |-> "",           \* the confidence field of the response
     returned |-> "",             \* what initialize_dspy returned
     failed_at |-> "",            \* the step of initialize_dspy that raised
     fix |-> NoCall,              \* the fix_prompt call the handler made
     added |-> NoCorpusCall,      \* the add_example call the handler made
     compiles |-> <<>>]           \* the compile_with_examples calls it made, in order

\* ------------------------------------------------------------------ inputs

RawPrompts == {PyNone} \cup {PyStr(s) : s \in SeqsUpTo({Letter, Space}, MaxPromptLen)}

\* what a structured predictor does: raises, or returns a Prediction
PredictorOutcomes ==
    {[raises |-> TRUE, corrected_prompt |-> <<>>]}
    \cup {[raises |-> FALSE, corrected_prompt |-> p] :
             p \in {<<>>, <<Letter>>, <<Space, Letter, DQuote>>}}

\* what the provider does: raises, or returns content segments
ProviderOutcomes ==
    {[raises |-> TRUE, content |-> <<>>], [raises |-> FALSE, content |-> <<>>]}
    \cup {[raises |-> FALSE, content |-> <<text>> \o more] :
             text \in SeqsUpTo(Chars, MaxRespLen), more \in {<<>>, <<<<Letter>>>>}}

ExampleInputs ==
    {DictExample(<<Letter>>, <<Letter>>), DictExample(<<Letter, Space>>, <<Letter>>),
     DictMissingKey(<<Letter>>), DspyExample(<<Letter>>, <<Letter>>), OtherObject}

OptimizerOutcomes ==
    {[kind |-> k, module |-> NoModule] :
        k \in {"ImportError", "MIPROv2 raises", "compile raises"}}
    \cup {[kind |-> "returns", module |-> m] : m \in OptimizedModules}

\* ----------------------------------------------------------------- actions

Init ==
    /\ use_optimization \in BOOLEAN      \* PromptFixer(use_optimization)
    /\ compiled_module = NoModule
    /\ settings_lm = "None"
    /\ compile_failed = FALSE
    /\ call = NoCall
    /\ lists = InitialLists             \* the module-level lists as written
    /\ held = NoList
    /\ cop = NoCorpusCall
    /\ fixing = IdleFixing
    /\ compiling = IdleCompiling
    /\ installed = {NoModule}
    /\ counting = IdleCounting
    /\ parse = NoParse
    /\ adapter = NewAdapter
    /\ service = NoService
    /\ http = NoRequest

\* dspy.settings.configure(lm=claude_lm)
Configure ==
    /\ call.op = "none"
    /\ settings_lm' = "ClaudeLM"
    /\ call' = [NoCall EXCEPT !.op = "configure"]
    /\ UNCHANGED <<use_optimization, compiled_module, compile_failed>>
    /\ UNCHANGED <<corpus_vars, thread_vars, parse, service_vars>>

FixPrompt ==
    /\ call.op = "none"
    /\ \E raw_prompt \in RawPrompts, pred \in PredictorOutcomes,
          provider \in ProviderOutcomes :
          call' = FixPromptCall(use_optimization, compiled_module, settings_lm,
                                raw_prompt, pred, provider)
    /\ UNCHANGED <<use_optimization, compiled_module, settings_lm, compile_failed>>
    /\ UNCHANGED <<corpus_vars, thread_vars, parse, service_vars>>

CompileWithExamples ==
    /\ call.op = "none"
    /\ \E examples \in SeqsUpTo(ExampleInputs, MaxExamples),
          optimizer \in OptimizerOutcomes :
          LET c == CompileCall(use_optimization, compiled_module, examples, optimizer)
          IN  /\ call' = c.call
              /\ use_optimization' = c.use_optimization
              /\ compiled_module' = c.compiled_module
              /\ compile_failed' = (compile_failed \/ c.call.failed_at # "")
    /\ UNCHANGED settings_lm
    /\ UNCHANGED <<corpus_vars, thread_vars, parse, service_vars>>

ModuleInfo ==
    /\ call.op = "none"
    /\ call' = [NoCall EXCEPT !.op = "get_module_info",
                              !.info = GetModuleInfo(use_optimization, compiled_module)]
    /\ UNCHANGED <<use_optimization, compiled_module, settings_lm, compile_failed>>
    /\ UNCHANGED <<corpus_vars, thread_vars, parse, service_vars>>

\* the call has returned or raised; the caller goes on to its next call
Return ==
    /\ call.op # "none"
    /\ call' = NoCall
    /\ UNCHANGED <<use_optimization, compiled_module, settings_lm, compile_failed>>
    /\ UNCHANGED <<corpus_vars, thread_vars, parse, service_vars>>

Next == Configure \/ FixPrompt \/ CompileWithExamples \/ ModuleInfo \/ Return

Spec == Init /\ [][Next]_vars

\* ----------------------------------------------------- corpus operations

MaxAdds == 2

\* the prompts and categories the corpus calls are tried with
AddPrompts ==
    {[raw_prompt |-> <<Letter>>, corrected_prompt |-> <<Letter, Space, Letter>>],
     [raw_prompt |-> <<Space>>, corrected_prompt |-> <<Letter>>],
     [raw_prompt |-> <<Letter>>, corrected_prompt |-> <<>>]}
Categories == RealCategories \cup {"all", "nonexistent"}

\* how many examples were added to the module-level lists
Added ==
    Len(lists["PROGRAMMING_EXAMPLES"]) + Len(lists["SPEECH_ERROR_EXAMPLES"])
        + Len(lists["TECHNICAL_CORRECTIONS"])
        - Len(PROGRAMMING_EXAMPLES) - Len(SPEECH_ERROR_EXAMPLES)
        - Len(TECHNICAL_CORRECTIONS)

AddExampleWith(inputs, categories) ==
    /\ cop.op = "none"
    /\ Added < MaxAdds
    /\ \E prompts \in inputs, category \in categories :
          LET r == AddExample(lists, prompts.raw_prompt, prompts.corrected_prompt,
                              category)
          IN  /\ lists' = r.lists
              /\ cop' = [NoCorpusCall EXCEPT !.op = "add_example",
                                             !.category = category,
                                             !.raw_prompt = prompts.raw_prompt,
                                             !.corrected_prompt = prompts.corrected_prompt,
                                             !.exc = r.exc]
    /\ UNCHANGED <<held, fixer_vars, thread_vars, parse, service_vars>>

AddExampleOp == AddExampleWith(AddPrompts, Categories)

GetAllExamplesOp ==
    /\ cop.op = "none"
    /\ lists' = GetAllExamples(lists).lists
    /\ held' = [held EXCEPT !.ref = GetAllExamples(lists).ref]
    /\ cop' = [NoCorpusCall EXCEPT !.op = "get_all_examples"]
    /\ UNCHANGED <<fixer_vars, thread_vars, parse, service_vars>>

GetExamplesByCategoryOp ==
    /\ cop.op = "none"
    /\ \E category \in Categories :
          LET r == GetExamplesByCategory(lists, category)
          IN  /\ lists' = r.lists
              /\ held' = IF r.exc = NoExc THEN [held EXCEPT !.ref = r.ref] ELSE held
              /\ cop' = [NoCorpusCall EXCEPT !.op = "get_examples_by_category",
                                             !.category = category,
                                             !.exc = r.exc]
    /\ UNCHANGED <<fixer_vars, thread_vars, parse, service_vars>>

GetExampleCountOp ==
    /\ cop.op = "none"
    /\ cop' = [NoCorpusCall EXCEPT !.op = "get_example_count",
                                   !.counts = GetExampleCount(lists)]
    /\ UNCHANGED <<lists, held, fixer_vars, thread_vars, parse, service_vars>>

\* the corpus call has returned or raised; the caller goes on
CorpusReturn ==
    /\ cop.op # "none"
    /\ cop' = NoCorpusCall
    /\ UNCHANGED <<lists, held, fixer_vars, thread_vars, parse, service_vars>>

CorpusNext ==
    \/ AddExampleOp \/ GetAllExamplesOp \/ GetExamplesByCategoryOp
    \/ GetExampleCountOp \/ CorpusReturn

\* a fixer constructed as initialize_dspy constructs it
CorpusInit == Init /\ use_optimization

CorpusSpec == CorpusInit /\ [][CorpusNext]_vars

\* ------------------------------------------------- a caller changing a list

MaxMutations == 1

\* what a caller may do to a list it was given: append an element, remove
\* the last one, reverse the order
Mutated(list, how) ==
    IF how = "append" THEN Append(list, OtherObject)
    ELSE IF how = "pop" THEN SubSeq(list, 1, Len(list) - 1)
    ELSE [i \in 1..Len(list) |-> list[Len(list) + 1 - i]]

MutateHeld ==
    /\ cop.op = "none"
    /\ held.ref # "none"
    /\ held.mutations < MaxMutations
    /\ \E how \in {"append", "pop", "reverse"} :
          /\ how = "pop" => lists[held.ref] # <<>>
          /\ lists' = [lists EXCEPT ![held.ref] = Mutated(@, how)]
          /\ cop' = [NoCorpusCall EXCEPT !.op = "caller mutation"]
    /\ held' = [held EXCEPT !.mutations = @ + 1]
    /\ UNCHANGED <<fixer_vars, thread_vars, parse, service_vars>>

\* add_example with one pair of prompts, to the first or the last list
AliasAdd ==
    AddExampleWith({[raw_prompt |-> <<Letter>>, corrected_prompt |-> <<Letter>>]},
                   {"programming", "technical"})

AliasNext ==
    \/ AliasAdd \/ GetAllExamplesOp \/ GetExamplesByCategoryOp
    \/ MutateHeld \/ CorpusReturn

AliasSpec == CorpusInit /\ [][AliasNext]_vars

\* ------------------------- fix_prompt concurrent with compile_with_examples

MaxFixCalls == 2
MaxCompileCalls == 2

\* a thread calls fix_prompt with a non-blank raw prompt
FixBegin ==
    /\ fixing.pc = "idle"
    /\ fixing.calls < MaxFixCalls
    /\ fixing' = [fixing EXCEPT !.pc = "test compiled_module"]
    /\ UNCHANGED <<fixer_vars, corpus_vars, compiling, installed, counting, parse, service_vars>>

\* line 108, left operand of `and`: self.compiled_module is read and tested
FixTestModule ==
    /\ fixing.pc = "test compiled_module"
    /\ fixing' = [fixing EXCEPT
                     !.first = compiled_module,
                     !.pc = IF SelectModule(compiled_module, TRUE) = PlainModule
                            THEN "call fix_prompt_module"
                            ELSE "test use_optimization"]
    /\ UNCHANGED <<fixer_vars, corpus_vars, compiling, installed, counting, parse, service_vars>>

\* line 108, right operand of `and`: self.use_optimization is read and tested
FixTestFlag ==
    /\ fixing.pc = "test use_optimization"
    /\ fixing' = [fixing EXCEPT
                     !.pc = IF SelectModule(fixing.first, use_optimization) = PlainModule
                            THEN "call fix_prompt_module"
                            ELSE "call compiled_module"]
    /\ UNCHANGED <<fixer_vars, corpus_vars, compiling, installed, counting, parse, service_vars>>

\* line 109: self.compiled_module is read again and called; or line 111
FixInvoke ==
    /\ fixing.pc \in {"call compiled_module", "call fix_prompt_module"}
    /\ fixing' = [fixing EXCEPT
                     !.invoked = IF fixing.pc = "call compiled_module"
                                 THEN compiled_module ELSE PlainModule,
                     !.pc = "invoked"]
    /\ UNCHANGED <<fixer_vars, corpus_vars, compiling, installed, counting, parse, service_vars>>

\* the call returns (or goes on to the fallback, which reads no field)
FixEnd ==
    /\ fixing.pc = "invoked"
    /\ fixing' = [IdleFixing EXCEPT !.calls = fixing.calls + 1]
    /\ UNCHANGED <<fixer_vars, corpus_vars, compiling, installed, counting, parse, service_vars>>

\* another thread calls compile_with_examples with valid examples: lines 54-55
CompileBegin ==
    /\ compiling.pc = "idle"
    /\ compiling.calls < MaxCompileCalls
    /\ compiling' = [compiling EXCEPT
                        !.pc = IF SkipsCompile(use_optimization)
                               THEN "returning" ELSE "optimizing"]
    /\ UNCHANGED <<fixer_vars, corpus_vars, fixing, installed, counting, parse, service_vars>>

\* lines 58-81, up to the value of mipro.compile(...): no field is written
CompileOptimize ==
    /\ compiling.pc = "optimizing"
    /\ \E optimizer \in OptimizerOutcomes :
          compiling' = [compiling EXCEPT
                           !.result = optimizer.module,
                           !.failed_at = IF optimizer.kind = "returns"
                                         THEN "" ELSE optimizer.kind,
                           !.pc = "storing"]
    /\ UNCHANGED <<fixer_vars, corpus_vars, fixing, installed, counting, parse, service_vars>>

\* line 81, the store into self.compiled_module; or lines 87 / 91, the store
\* into self.use_optimization
CompileStore ==
    /\ compiling.pc = "storing"
    /\ compiled_module' = AfterCompile(compiled_module, compiling.failed_at,
                                        compiling.result)
    /\ use_optimization' = IF compiling.failed_at = "" THEN use_optimization
                            ELSE AfterCaught(use_optimization)
    /\ compile_failed' = (compile_failed \/ compiling.failed_at # "")
    /\ installed' = installed \cup {compiled_module'}
    /\ compiling' = [compiling EXCEPT !.pc = "returning"]
    /\ UNCHANGED <<settings_lm, call, corpus_vars, fixing, counting, parse, service_vars>>

CompileEnd ==
    /\ compiling.pc = "returning"
    /\ compiling' = [IdleCompiling EXCEPT !.calls = compiling.calls + 1]
    /\ UNCHANGED <<fixer_vars, corpus_vars, fixing, installed, counting, parse, service_vars>>

RaceNext ==
    \/ FixBegin \/ FixTestModule \/ FixTestFlag \/ FixInvoke \/ FixEnd
    \/ CompileBegin \/ CompileOptimize \/ CompileStore \/ CompileEnd

RaceSpec == Init /\ [][RaceNext]_vars

\* --------------------------- get_example_count concurrent with add_example

\* a thread calls get_example_count
CountBegin ==
    /\ counting.pc = "idle"
    /\ counting' = [IdleCounting EXCEPT !.pc = "programming"]
    /\ UNCHANGED <<fixer_vars, corpus_vars, fixing, compiling, installed, parse, service_vars>>

\* line 116: len(PROGRAMMING_EXAMPLES)
CountProgramming ==
    /\ counting.pc = "programming"
    /\ counting' = [counting EXCEPT
                       !.programming = GetExampleCount(lists).programming,
                       !.pc = "speech"]
    /\ UNCHANGED <<fixer_vars, corpus_vars, fixing, compiling, installed, parse, service_vars>>

\* line 117: len(SPEECH_ERROR_EXAMPLES)
CountSpeech ==
    /\ counting.pc = "speech"
    /\ counting' = [counting EXCEPT
                       !.speech = GetExampleCount(lists).speech,
                       !.pc = "technical"]
    /\ UNCHANGED <<fixer_vars, corpus_vars, fixing, compiling, installed, parse, service_vars>>

\* line 118: len(TECHNICAL_CORRECTIONS)
CountTechnical ==
    /\ counting.pc = "technical"
    /\ counting' = [counting EXCEPT
                       !.technical = GetExampleCount(lists).technical,
                       !.pc = "first +"]
    /\ UNCHANGED <<fixer_vars, corpus_vars, fixing, compiling, installed, parse, service_vars>>

\* line 64, called from line 119: PROGRAMMING_EXAMPLES + SPEECH_ERROR_EXAMPLES
CountJoinFirst ==
    /\ counting.pc = "first +"
    /\ counting' = [counting EXCEPT
                       !.partial = lists["PROGRAMMING_EXAMPLES"]
                                       \o lists["SPEECH_ERROR_EXAMPLES"],
                       !.pc = "second +"]
    /\ UNCHANGED <<fixer_vars, corpus_vars, fixing, compiling, installed, parse, service_vars>>

\* line 64: ... + TECHNICAL_CORRECTIONS, and line 119: len(...)
CountJoinSecond ==
    /\ counting.pc = "second +"
    /\ counting' = [counting EXCEPT
                       !.total = Len(counting.partial \o lists["TECHNICAL_CORRECTIONS"]),
                       !.partial = <<>>,
                       !.pc = "returning"]
    /\ UNCHANGED <<fixer_vars, corpus_vars, fixing, compiling, installed, parse, service_vars>>

\* the dict is returned
CountEnd ==
    /\ counting.pc = "returning"
    /\ counting' = IdleCounting
    /\ UNCHANGED <<fixer_vars, corpus_vars, fixing, compiling, installed, parse, service_vars>>

\* add_example in another thread, with one pair of prompts
CountRaceAdd ==
    AddExampleWith({[raw_prompt |-> <<Letter>>, corrected_prompt |-> <<Letter>>]},
                   RealCategories)

CountRaceNext ==
    \/ CountBegin \/ CountProgramming \/ CountSpeech \/ CountTechnical
    \/ CountJoinFirst \/ CountJoinSecond \/ CountEnd
    \/ CountRaceAdd \/ CorpusReturn

CountRaceSpec == CorpusInit /\ [][CountRaceNext]_vars

\* ------------------------------------------------- calls of the adapter

MaxMessages == 3

LmPrompts == {PyNone, PyStr(<<Letter>>)}
LmEntries ==
    {[role |-> r, content |-> c] :
        r \in {"system", "user", "assistant"},
        c \in {<<>>, <<Space>>, <<Letter, Letter>>}}
LmMessages ==
    {NoMessages} \cup {[none |-> FALSE, list |-> l] : l \in SeqsUpTo(LmEntries, MaxMessages)}
LmKwargs ==
    {[temperature |-> t, max_tokens |-> m] :
        t \in {"absent", "0.3"}, m \in {"absent", "256"}}
LmProviderOutcomes ==
    {[raises |-> TRUE, content |-> <<>>], [raises |-> FALSE, content |-> <<>>],
     [raises |-> FALSE, content |-> <<<<Letter>>, <<Space>>>>]}

\* ClaudeLM.__call__(prompt, messages, **kwargs)
LmCall ==
    /\ adapter.call.op = "none"
    /\ \E prompt \in LmPrompts, messages \in LmMessages, kwargs \in LmKwargs,
          provider \in LmProviderOutcomes :
          LET r == ClaudeLMCall(prompt, messages, provider)
              called == r.requests # <<>>
          IN  adapter' =
                [config |-> ConfigAfterCall(adapter.config, kwargs),
                 call |-> [op |-> "__call__", prompt |-> prompt, messages |-> messages,
                           kwargs |-> kwargs,
                           provider |-> IF called THEN provider ELSE NoProvider,
                           params |-> IF called
                                      THEN <<EffectiveParams(adapter.config, kwargs)>>
                                      ELSE <<>>,
                           requests |-> r.requests,
                           text |-> IF r.exc = NoExc THEN PyStr(r.text) ELSE PyNone,
                           exc |-> r.exc]]
    /\ UNCHANGED <<fixer_vars, corpus_vars, thread_vars, parse, service, http>>

\* the call has returned or raised; the caller goes on
LmReturn ==
    /\ adapter.call.op # "none"
    /\ adapter' = [adapter EXCEPT !.call = NoLmCall]
    /\ UNCHANGED <<fixer_vars, corpus_vars, thread_vars, parse, service, http>>

LmNext == LmCall \/ LmReturn

LmSpec == CorpusInit /\ [][LmNext]_vars

\* ---------------------------------------------------- the request handlers

MaxInits == 2

\* the steps of initialize_dspy's try block that can raise, "" for none
InitFailures == {"ClaudeLM", "configure", "PromptFixer", ""}

\* mutant: the fixer is constructed and assigned before dspy is configured
InstallsFixer_BeforeConfigure(failed_at) == failed_at \in {"", "configure", "PromptFixer"}

\* line 88 is reached and its assignment done: no earlier step raised and
\* the constructor did not raise
InstallsFixer(failed_at) == failed_at = ""

\* initialize_dspy() as call number n, in the state (svc, uo, cm, lm, cf, ls):
\* the globals, the fields of the fixer prompt_fixer refers to and
\* dspy.settings.lm afterwards, what it returned and the compile calls made
InitializeDspy(n, svc, uo, cm, lm, cf, ls, failed_at, optimizer) ==
    LET examples == Concatenation(ls)
        c == CompileCall(TRUE, NoModule, examples, optimizer)
        compiled == examples # <<>>
        raised == failed_at # "" \/ (compiled /\ c.call.exc # NoExc)
    IN  [service |-> [claude_lm |-> IF failed_at = "ClaudeLM" THEN svc.claude_lm ELSE n,
                      prompt_fixer |-> IF InstallsFixer(failed_at)
                                       THEN n ELSE svc.prompt_fixer,
                      initialized |-> n],
         settings_lm |-> IF failed_at \in {"ClaudeLM", "configure"} THEN lm ELSE "ClaudeLM",
         use_optimization |-> IF ~InstallsFixer(failed_at) THEN uo
                              ELSE IF failed_at = "" /\ compiled THEN c.use_optimization
                              ELSE TRUE,
         compiled_module |-> IF ~InstallsFixer(failed_at) THEN cm
                             ELSE IF failed_at = "" /\ compiled THEN c.compiled_module
                             ELSE NoModule,
         compile_failed |-> IF ~InstallsFixer(failed_at) THEN cf
                            ELSE failed_at = "" /\ compiled /\ c.call.failed_at # "",
         compiles |-> IF failed_at = "" /\ compiled THEN <<c.call>> ELSE <<>>,
         failed_at |-> failed_at,
         returned |-> IF raised THEN "False" ELSE "True"]

\* mutant: every exception of fix_prompt is answered 500
OptimizeStatus_Always500(exc) == IF exc = NoExc THEN 200 ELSE 500

\* lines 148-156 of optimize_prompt: the status for what fix_prompt did
OptimizeStatus(exc) ==
    IF exc = NoExc THEN 200 ELSE IF exc.type = "ValueError" THEN 400 ELSE 500

\* mutant: the examples are read before the new one is added
RecompileExamples_Stale(before, after) == Concatenation(before)

\* line 191: get_all_examples() once add_example has returned
RecompileExamples(before, after) == Concatenation(after)

ServiceRawPrompts == {PyStr(<<>>), PyStr(<<Space>>), PyStr(<<Letter>>)}
ServiceCategories == {"technical", "all", "nonexistent"}
ServicePrompts == {[raw_prompt |-> <<Letter>>, corrected_prompt |-> <<Letter>>]}

\* the state after initialize_dspy, and the record of the request
Initialized(endpoint, r) ==
    /\ service' = r.service
    /\ settings_lm' = r.settings_lm
    /\ use_optimization' = r.use_optimization
    /\ compiled_module' = r.compiled_module
    /\ compile_failed' = r.compile_failed
    /\ http' = [NoRequest EXCEPT
                   !.endpoint = endpoint,
                   !.returned = r.returned,
                   !.failed_at = r.failed_at,
                   !.compiles = r.compiles,
                   !.status = IF endpoint = "startup" THEN 0
                              ELSE IF r.returned = "True" THEN 200 ELSE 500,
                   !.detail = IF endpoint = "startup" \/ r.returned = "True" THEN ""
                              ELSE "Error reinitializing"]
    /\ UNCHANGED <<call, corpus_vars, thread_vars, parse, adapter>>

\* startup_event: initialize_dspy() when the application starts
Startup ==
    /\ http.endpoint = "none"
    /\ service.initialized = 0
    /\ \E failed_at \in InitFailures, optimizer \in OptimizerOutcomes :
          Initialized("startup",
                      InitializeDspy(1, service, use_optimization, compiled_module,
                                     settings_lm, compile_failed, lists,
                                     failed_at, optimizer))

\* POST /reinitialize
Reinitialize ==
    /\ http.endpoint = "none"
    /\ service.initialized < MaxInits
    /\ \E failed_at \in InitFailures, optimizer \in OptimizerOutcomes :
          Initialized("/reinitialize",
                      InitializeDspy(service.initialized + 1, service, use_optimization,
                                     compiled_module, settings_lm, compile_failed,
                                     lists, failed_at, optimizer))

\* POST /optimize-prompt
OptimizePrompt ==
    /\ http.endpoint = "none"
    /\ \E raw_prompt \in ServiceRawPrompts, pred \in PredictorOutcomes,
          provider \in LmProviderOutcomes :
          LET c == FixPromptCall(use_optimization, compiled_module, settings_lm,
                                 raw_prompt, pred, provider)
              base == [NoRequest EXCEPT !.endpoint = "/optimize-prompt"]
          IN  http' =
                IF service.prompt_fixer = 0
                THEN [base EXCEPT !.status = 503, !.detail = "DSPy not initialized"]
                ELSE IF OptimizeStatus(c.exc) = 200
                THEN [base EXCEPT !.status = 200, !.fix = c, !.body = c.result,
                                  !.confidence = "null"]
                ELSE [base EXCEPT !.status = OptimizeStatus(c.exc), !.fix = c,
                                  !.detail = IF OptimizeStatus(c.exc) = 400
                                             THEN c.exc.msg
                                             ELSE "Error processing prompt"]
    /\ UNCHANGED <<fixer_vars, corpus_vars, thread_vars, parse, adapter, service>>

\* POST /examples
AddTrainingExample ==
    /\ http.endpoint = "none"
    /\ Added < MaxAdds
    /\ \E prompts \in ServicePrompts, category \in ServiceCategories,
          optimizer \in OptimizerOutcomes :
          LET a == AddExample(lists, prompts.raw_prompt, prompts.corrected_prompt,
                              category)
              added == [NoCorpusCall EXCEPT !.op = "add_example",
                                            !.category = category,
                                            !.raw_prompt = prompts.raw_prompt,
                                            !.corrected_prompt = prompts.corrected_prompt,
                                            !.exc = a.exc]
              base == [NoRequest EXCEPT !.endpoint = "/examples", !.added = added]
              c == CompileCall(use_optimization, compiled_module,
                               RecompileExamples(lists, a.lists), optimizer)
              recompiles == a.exc = NoExc /\ service.prompt_fixer # 0
              exc == IF a.exc # NoExc THEN a.exc
                     ELSE IF recompiles THEN c.call.exc ELSE NoExc
          IN  /\ lists' = a.lists
              /\ use_optimization' = IF recompiles THEN c.use_optimization
                                      ELSE use_optimization
              /\ compiled_module' = IF recompiles THEN c.compiled_module
                                     ELSE compiled_module
              /\ compile_failed' = IF recompiles
                                    THEN compile_failed \/ c.call.failed_at # ""
                                    ELSE compile_failed
              /\ http' = [base EXCEPT
                             !.compiles = IF recompiles THEN <<c.call>> ELSE <<>>,
                             !.status = IF exc = NoExc THEN 200
                                        ELSE IF exc.type = "ValueError" THEN 400 ELSE 500,
                             !.detail = IF exc = NoExc THEN "Example added successfully"
                                        ELSE IF exc.type = "ValueError" THEN exc.msg
                                        ELSE "Error adding example"]
    /\ UNCHANGED <<settings_lm, call, held, cop, thread_vars, parse, adapter, service>>

\* the response has been sent
Answered ==
    /\ http.endpoint # "none"
    /\ http' = NoRequest
    /\ UNCHANGED <<fixer_vars, corpus_vars, thread_vars, parse, adapter, service>>

ServiceNext ==
    \/ Startup \/ Reinitialize \/ OptimizePrompt \/ AddTrainingExample \/ Answered

ServiceSpec == CorpusInit /\ [][ServiceNext]_vars

\* ------------------------------------------- the parsing of a response

MaxParseLen == 4

\* the characters of a response: those the code looks for, and the arrow
ParseChars == Chars \cup {Arrow}

\* `response = lm(prompt)`: the language model returns the text to parse
Respond ==
    /\ parse = NoParse
    /\ \E r \in SeqsUpTo(ParseChars, MaxParseLen) :
          parse' = [NoParse EXCEPT !.response = r]
    /\ UNCHANGED <<fixer_vars, corpus_vars, thread_vars, service_vars>>

\* the rest of _fix_prompt_fallback: the value it returns
Parse ==
    /\ parse.parsed = PyNone
    /\ parse' = [parse EXCEPT !.parsed = PyStr(ParseResponse(parse.response))]
    /\ UNCHANGED <<fixer_vars, corpus_vars, thread_vars, service_vars>>

ParseNext == Respond \/ Parse

ParseSpec == CorpusInit /\ [][ParseNext]_vars

\* ------------------------------------------------------------------ claims

\* a raw prompt that is None, empty or made of whitespace only
BlankInput(raw) == raw.none \/ \A i \in 1..Len(raw.s) : raw.s[i] = Space

\* the latest call is a fix_prompt call on a non-blank raw prompt
FixedNonBlank == call.op = "fix_prompt" /\ ~BlankInput(call.raw)

\* s has `part` as a contiguous piece
HasPart(s, part) ==
    \E i \in 1..(Len(s) + 1) :
        /\ i + Len(part) - 1 <= Len(s)
        /\ SubSeq(s, i, i + Len(part) - 1) = part

\* the direct language-model call of the latest call raised
LmRaised == Len(call.lm_prompts) = 1 /\ call.lm_response.none

\* C1: a fix_prompt call on a non-blank raw prompt invokes exactly one
\* structured predictor, with the raw prompt as given: the compiled module
\* if compiled_module is set and use_optimization is true, the plain module
\* otherwise; when the predictor returns, the call returns its
\* corrected_prompt field as it is and the language model is not called
\* directly.
C1_PredictorSelection ==
    FixedNonBlank =>
        /\ Len(call.invoked) = 1
        /\ call.invoked[1].raw_prompt = call.raw.s
        /\ (call.invoked[1].module = compiled_module)
               <=> (compiled_module # NoModule /\ use_optimization)
        /\ (call.invoked[1].module = PlainModule)
               <=> ~(compiled_module # NoModule /\ use_optimization)
        /\ ~call.pred_raised =>
               /\ call.exc = NoExc
               /\ ~call.predicted.none
               /\ call.result = call.predicted
               /\ call.lm_prompts = <<>>
               /\ call.requests = <<>>

C1_Witness ==
    /\ FixedNonBlank
    /\ use_optimization
    /\ call.invoked = <<[module |-> "compiled_2", raw_prompt |-> <<Space, Letter>>]>>
    /\ call.result = PyStr(<<Space, Letter, DQuote>>)

\* C2: when the structured predictor chosen by fix_prompt raises, the
\* exception does not reach the caller as it is: with a language model
\* configured the model is called directly exactly once, with a prompt made
\* of the fixed instructions, the raw prompt and the marker; it is never
\* called more than once; and if that call returns text, fix_prompt returns
\* a string and raises nothing.
C2_FallbackAbsorbs ==
    (call.op = "fix_prompt" /\ call.pred_raised) =>
        /\ call.exc \in {NoExc, Exc("RuntimeError", "Error in fallback prompt fixing")}
        /\ Len(call.lm_prompts) <= 1
        /\ settings_lm # "None" =>
               /\ Len(call.lm_prompts) = 1
               /\ Len(call.requests) = 1
               /\ Head(call.lm_prompts[1]) = Instructions
               /\ call.lm_prompts[1][Len(call.lm_prompts[1])] = Marker
               /\ HasPart(call.lm_prompts[1], <<DQuote>> \o call.raw.s \o <<DQuote>>)
        /\ ~call.lm_response.none => (call.exc = NoExc /\ ~call.result.none)

C2_Witness ==
    /\ call.op = "fix_prompt"
    /\ call.pred_raised
    /\ call.raw = PyStr(<<Letter, Space>>)
    /\ call.lm_response = PyStr(<<Marker, Letter>>)
    /\ call.result = PyStr(<<Letter>>)
    /\ call.exc = NoExc

\* C3 as stated: when the optimized predictor is the one selected and it
\* raises, the plain structured predictor is tried before the direct
\* language-model fallback is used.
C3_PlainTriedAfterOptimized ==
    (call.op = "fix_prompt" /\ call.pred_raised
        /\ call.invoked # <<>> /\ call.invoked[1].module \in OptimizedModules) =>
        /\ Len(call.invoked) >= 2
        /\ call.invoked[2].module = PlainModule

\* C3 (amended): there are two tiers per call, one structured predictor and
\* then the direct language-model prompt: when the optimized predictor is
\* the one selected and it raises, the plain predictor is not tried; the
\* optimized predictor is the only structured predictor invoked and the
\* call goes on to the direct language-model fallback (one direct call if a
\* language model is configured, the terminal error otherwise).
C3_OptimizedThenFallback ==
    (call.op = "fix_prompt" /\ call.pred_raised
        /\ call.invoked # <<>> /\ call.invoked[1].module \in OptimizedModules) =>
        /\ Len(call.invoked) = 1
        /\ \A i \in 1..Len(call.invoked) : call.invoked[i].module # PlainModule
        /\ IF settings_lm = "None"
           THEN call.lm_prompts = <<>> /\ call.exc # NoExc
           ELSE Len(call.lm_prompts) = 1

C3_Witness ==
    /\ call.op = "fix_prompt"
    /\ call.pred_raised
    /\ call.invoked = <<[module |-> "compiled_1", raw_prompt |-> <<Letter>>]>>
    /\ Len(call.lm_prompts) = 1
    /\ call.result = PyStr(<<Letter>>)

\* C4: a fix_prompt call on a non-blank input either returns a string
\* (possibly empty) and raises nothing, or raises the fallback RuntimeError
\* and returns nothing; it raises only when the structured predictor raised
\* and then no language model was configured or the language-model call
\* raised.
C4_StringOrTerminalError ==
    FixedNonBlank =>
        /\ \/ (call.exc = NoExc /\ ~call.result.none)
           \/ (call.exc = Exc("RuntimeError", "Error in fallback prompt fixing")
                  /\ call.result.none)
        /\ call.exc # NoExc =>
               /\ call.pred_raised
               /\ (settings_lm = "None" /\ call.lm_prompts = <<>>) \/ LmRaised
        /\ (call.pred_raised /\ (settings_lm = "None" \/ LmRaised)) => call.exc # NoExc

C4_Witness ==
    /\ FixedNonBlank
    /\ settings_lm # "None"
    /\ call.pred_raised
    /\ LmRaised
    /\ call.exc = Exc("RuntimeError", "Error in fallback prompt fixing")
    /\ call.result.none

\* C5: fix_prompt on None, the empty string or a whitespace-only string
\* raises ValueError "Raw prompt cannot be empty" whatever the state of the
\* fixer, invokes no predictor and no language model, and changes nothing
\* of the fixer.
C5_EmptyInput ==
    [][(call'.op = "fix_prompt" /\ BlankInput(call'.raw)) =>
          /\ call'.exc = Exc("ValueError", "Raw prompt cannot be empty")
          /\ call'.result.none
          /\ call'.invoked = <<>>
          /\ call'.lm_prompts = <<>>
          /\ call'.requests = <<>>
          /\ UNCHANGED <<use_optimization, compiled_module, settings_lm>>]_vars

C5_Witness ==
    /\ call.op = "fix_prompt"
    /\ call.raw = PyStr(<<Space, Space>>)
    /\ call.exc.type = "ValueError"
    /\ compiled_module # NoModule
    /\ use_optimization
    /\ settings_lm # "None"

\* the optimizer (its import, its constructor or its compile) raised in the
\* latest call
OptimizerRaised ==
    call.op = "compile_with_examples" /\ call.failed_at \in {"import", "MIPROv2", "compile"}

\* C6: a compile_with_examples call raises nothing to its caller, and when
\* the optimizer or its import raised during the call, use_optimization is
\* false afterwards.
C6_CompileNeverRaises ==
    call.op = "compile_with_examples" =>
        /\ call.exc = NoExc
        /\ OptimizerRaised => ~use_optimization

C6_Witness ==
    /\ OptimizerRaised
    /\ call.failed_at = "compile"
    /\ Len(call.optimizer_calls) = 1
    /\ call.exc = NoExc
    /\ ~use_optimization

\* C7: while use_optimization is false, compile_with_examples does not
\* invoke the optimizer and leaves use_optimization and compiled_module as
\* they are, and no call makes use_optimization true again.
C7_DisabledStaysDisabled ==
    [][~use_optimization =>
          /\ ~use_optimization'
          /\ compiled_module' = compiled_module
          /\ call'.op = "compile_with_examples" =>
                 /\ call'.optimizer_calls = <<>>
                 /\ call'.failed_at = ""
                 /\ call'.exc = NoExc]_vars

C7_Witness ==
    /\ compile_failed
    /\ ~use_optimization
    /\ call.op = "compile_with_examples"
    /\ call.failed_at = ""
    /\ Len(call.examples) = MaxExamples
    /\ \A i \in 1..Len(call.examples) : call.examples[i].kind = "Example"

\* C8 as stated: after a compile call in which the optimizer raised,
\* get_module_info() reports has_compiled_module = False, whatever the
\* calls before it; and a fix_prompt call after a failed compile invokes the
\* plain predictor and raises nothing but the fallback's own error.
C8_FailedCompileReportsNoModule ==
    /\ OptimizerRaised =>
           ~GetModuleInfo(use_optimization, compiled_module).has_compiled_module
    /\ (compile_failed /\ FixedNonBlank) =>
           /\ call.invoked = <<[module |-> PlainModule, raw_prompt |-> call.raw.s]>>
           /\ call.exc # NoExc => call.pred_raised

\* C8 (amended): after a compile call in which the optimizer raised,
\* get_module_info() reports use_optimization = False and the same
\* has_compiled_module as before the call (False when no earlier compile
\* succeeded, True when one did); and a fix_prompt call after a failed
\* compile invokes the plain predictor and raises nothing but the fallback's
\* own error.
C8_FailedCompileKeepsModule ==
    [][/\ (call'.op = "compile_with_examples"
              /\ call'.failed_at \in {"import", "MIPROv2", "compile"}) =>
              /\ ~GetModuleInfo(use_optimization', compiled_module').use_optimization
              /\ GetModuleInfo(use_optimization', compiled_module').has_compiled_module
                     = GetModuleInfo(use_optimization, compiled_module).has_compiled_module
       /\ (compile_failed' /\ call'.op = "fix_prompt" /\ ~BlankInput(call'.raw)) =>
              /\ call'.invoked = <<[module |-> PlainModule, raw_prompt |-> call'.raw.s]>>
              /\ call'.exc # NoExc => call'.pred_raised]_vars

C8_Witness ==
    /\ OptimizerRaised
    /\ GetModuleInfo(use_optimization, compiled_module).has_compiled_module
    /\ ~GetModuleInfo(use_optimization, compiled_module).use_optimization

\* C9 as stated: a compile call (optimization requested) on a sequence
\* whose first unconvertible element is neither a dict nor an Example raises
\* the ValueError "Invalid example format" to its caller.
C9_InvalidExampleSurfaces ==
    (/\ call.op = "compile_with_examples"
     /\ call.failed_at = "convert"
     /\ \E i \in 1..Len(call.examples) :
            /\ call.examples[i].kind = "other"
            /\ \A j \in 1..(i - 1) :
                   call.examples[j].kind = "Example"
                   \/ (call.examples[j].kind = "dict" /\ call.examples[j].has_keys))
    => call.exc = Exc("ValueError", "Invalid example format")

\* C10: fix_prompt and get_module_info leave use_optimization and
\* compiled_module unchanged; only compile_with_examples changes either;
\* compiled_module changes only in a compile call whose optimizer returned,
\* and is then the module the optimizer returned; a compile call in which
\* something raised leaves compiled_module as it was.
C10_OnlyCompileMutates ==
    [][/\ call'.op \in {"fix_prompt", "get_module_info"} =>
              UNCHANGED <<use_optimization, compiled_module>>
       /\ (use_optimization' # use_optimization \/ compiled_module' # compiled_module) =>
              call'.op = "compile_with_examples"
       /\ compiled_module' # compiled_module =>
              /\ call'.failed_at = ""
              /\ Len(call'.optimizer_calls) = 1
       /\ (call'.op = "compile_with_examples" /\ call'.compiled # NoModule) =>
              compiled_module' = call'.compiled
       /\ (call'.op = "compile_with_examples" /\ call'.failed_at # "") =>
              compiled_module' = compiled_module]_vars

C10_Witness ==
    /\ call.op = "compile_with_examples"
    /\ call.failed_at = "compile"
    /\ compiled_module = "compiled_2"

\* -------------------------------------------------------- claims: corpus

\* list `a` is the beginning of list `b`
IsPrefix(a, b) == Len(a) <= Len(b) /\ SubSeq(b, 1, Len(a)) = a

\* the three module-level lists are the same objects with the same content
CorpusUnchanged == \A l \in CorpusLists : lists'[l] = lists[l]

\* the list get_examples_by_category(category) returns in the current state
ByCategory(category) ==
    GetExamplesByCategory(lists, category).lists[GetExamplesByCategory(lists, category).ref]

\* C13: whatever add_example calls came before (accepted or rejected), the
\* dict get_example_count returns has, for each real category, the length of
\* get_examples_by_category of that category, and a total that is both the
\* sum of the three and the length of get_all_examples().
C13_CountsAgree ==
    cop.op = "get_example_count" =>
        /\ cop.counts.programming = Len(ByCategory("programming"))
        /\ cop.counts.speech = Len(ByCategory("speech"))
        /\ cop.counts.technical = Len(ByCategory("technical"))
        /\ cop.counts.total
             = cop.counts.programming + cop.counts.speech + cop.counts.technical
        /\ cop.counts.total = Len(GetAllExamples(lists).lists[GetAllExamples(lists).ref])

\* get_example_count has returned after an example was added to the speech list
C13_Witness ==
    /\ cop.op = "get_example_count"
    /\ cop.counts.speech > Len(SPEECH_ERROR_EXAMPLES)
    /\ cop.counts.total > cop.counts.programming + cop.counts.technical

\* C14: in every state add_example calls lead to, get_examples_by_category("all")
\* and get_all_examples() are the same sequence: the programming list, then
\* the speech list, then the technical list; and that is the list a caller of
\* either holds when the call returns.
C14_AllIsConcatenation ==
    LET inOrder == lists["PROGRAMMING_EXAMPLES"] \o lists["SPEECH_ERROR_EXAMPLES"]
                       \o lists["TECHNICAL_CORRECTIONS"]
    IN  /\ ByCategory("all") = GetAllExamples(lists).lists[GetAllExamples(lists).ref]
        /\ ByCategory("all") = inOrder
        /\ (\/ cop.op = "get_all_examples"
            \/ cop.op = "get_examples_by_category" /\ cop.category = "all")
           => lists[held.ref] = inOrder

\* get_examples_by_category("all") has returned after an example was added to
\* the speech list and one to the technical list
C14_Witness ==
    /\ cop.op = "get_examples_by_category"
    /\ cop.category = "all"
    /\ Len(lists["SPEECH_ERROR_EXAMPLES"]) > Len(SPEECH_ERROR_EXAMPLES)
    /\ Len(lists["TECHNICAL_CORRECTIONS"]) > Len(TECHNICAL_CORRECTIONS)
    /\ Len(lists[held.ref]) = Len(lists["PROGRAMMING_EXAMPLES"])
           + Len(lists["SPEECH_ERROR_EXAMPLES"]) + Len(lists["TECHNICAL_CORRECTIONS"])

\* C15: a read with a name outside programming, speech, technical, all
\* returns an empty list, raises nothing and changes none of the three
\* lists; a write with a category outside programming, speech, technical
\* ("all" included) raises ValueError "Unknown category" and changes none of
\* the three lists; a write with a real category raises nothing.
C15_ReadLenientWriteStrict ==
    [][/\ (cop'.op = "get_examples_by_category"
             /\ cop'.category \notin {"programming", "speech", "technical", "all"})
          => /\ cop'.exc = NoExc
             /\ held'.ref \notin CorpusLists
             /\ lists'[held'.ref] = <<>>
             /\ CorpusUnchanged
       /\ (cop'.op = "add_example"
             /\ cop'.category \notin {"programming", "speech", "technical"})
          => /\ cop'.exc = Exc("ValueError", "Unknown category")
             /\ CorpusUnchanged
       /\ (cop'.op = "add_example"
             /\ cop'.category \in {"programming", "speech", "technical"})
          => cop'.exc = NoExc
      ]_vars

\* add_example(..., "all") was rejected after an earlier add was accepted
C15_Witness ==
    /\ cop.op = "add_example"
    /\ cop.category = "all"
    /\ cop.exc = Exc("ValueError", "Unknown category")
    /\ Added > 0

\* C16: add_example with a real category appends exactly one example with
\* the given raw_prompt and corrected_prompt at the end of that category's
\* list and leaves the other two lists alone; and in every step of every
\* operation each of the three lists before the step is a prefix of the same
\* list after it.
C16_AppendOnly ==
    [][/\ (cop'.op = "add_example"
             /\ cop'.category \in {"programming", "speech", "technical"})
          => LET target == CategoryList(cop'.category)
             IN  /\ Len(lists'[target]) = Len(lists[target]) + 1
                 /\ lists'[target][Len(lists'[target])].raw_prompt = cop'.raw_prompt
                 /\ lists'[target][Len(lists'[target])].corrected_prompt
                        = cop'.corrected_prompt
                 /\ \A l \in CorpusLists \ {target} : lists'[l] = lists[l]
       /\ \A l \in CorpusLists : IsPrefix(lists[l], lists'[l])
      ]_vars

\* a second example was added to the technical list, after the first
C16_Witness ==
    /\ cop.op = "add_example"
    /\ cop.category = "technical"
    /\ cop.exc = NoExc
    /\ Len(lists["TECHNICAL_CORRECTIONS"]) = Len(TECHNICAL_CORRECTIONS) + MaxAdds
    /\ lists["TECHNICAL_CORRECTIONS"][Len(lists["TECHNICAL_CORRECTIONS"])].raw_prompt
           = cop.raw_prompt

\* a Python string that is empty after .strip()
BlankString(str) == \A i \in 1..Len(str) : str[i] = Space

\* C17 (as claimed): every example get_all_examples() returns has a
\* raw_prompt and a corrected_prompt that are non-empty after trimming.
\* add_example checks neither, so this is violated.
C17_ExamplesNonBlank ==
    LET all == GetAllExamples(lists).lists[GetAllExamples(lists).ref]
    IN  \A i \in 1..Len(all) :
            /\ ~BlankString(all[i].raw_prompt)
            /\ ~BlankString(all[i].corrected_prompt)

\* C18: get_all_examples returns a list that is none of the three
\* module-level lists and holds their concatenation; a caller appending to,
\* removing from or reordering a list that is none of the three changes none
\* of the three; and an add_example leaves the list the caller holds from an
\* earlier get_all_examples as it was.
C18_Snapshot ==
    [][/\ cop'.op = "get_all_examples"
          => /\ held'.ref \notin CorpusLists
             /\ lists'[held'.ref] = lists["PROGRAMMING_EXAMPLES"]
                    \o lists["SPEECH_ERROR_EXAMPLES"] \o lists["TECHNICAL_CORRECTIONS"]
             /\ CorpusUnchanged
       /\ (cop'.op = "caller mutation" /\ held.ref \notin CorpusLists)
          => CorpusUnchanged
       /\ (cop'.op = "add_example" /\ held.ref \notin CorpusLists \cup {"none"})
          => lists'[held.ref] = lists[held.ref]
      ]_vars

\* the caller appended to the list get_all_examples returned, and after that
\* an example was added to the programming list
C18_Witness ==
    /\ cop.op = "add_example"
    /\ cop.exc = NoExc
    /\ held.ref \notin CorpusLists \cup {"none"}
    /\ Len(lists[held.ref]) > Len(PROGRAMMING_EXAMPLES)
    /\ lists[held.ref][Len(lists[held.ref])] = OtherObject
    /\ Len(lists["PROGRAMMING_EXAMPLES"]) > Len(PROGRAMMING_EXAMPLES)
    /\ lists["PROGRAMMING_EXAMPLES"][Len(lists["PROGRAMMING_EXAMPLES"])] # OtherObject

\* ------------------------------------------------------- claims: parsing

Quotes == {DQuote, SQuote}

\* s neither begins nor ends with whitespace or a quote character
CleanEnds(s) ==
    s # <<>> => s[1] \notin Whitespace \cup Quotes /\ s[Len(s)] \notin Whitespace \cup Quotes

\* C19 (as claimed): when the response contains the marker, the value
\* returned is part of the text after the last marker and neither begins nor
\* ends with whitespace, a single quote or a double quote. The code strips
\* double quotes, then single quotes, then whitespace, once each, so a value
\* can keep a quote or a blank the earlier steps could not yet reach.
C19_MarkerResultClean ==
    (~parse.parsed.none /\ Contains(parse.response, Marker)) =>
        /\ HasPart(AfterLast(parse.response, Marker), parse.parsed.s)
        /\ CleanEnds(parse.parsed.s)

\* C20 (as claimed): when the response has no marker but has the arrow
\* U+2192, the value returned is the text after the last arrow with
\* whitespace and quotes stripped; when it has neither, the value returned is
\* the response with surrounding whitespace removed. The code looks for the
\* three-character literal instead of the arrow.
C20_ArrowResult ==
    (~parse.parsed.none /\ ~Contains(parse.response, Marker)) =>
        IF Contains(parse.response, Arrow)
        THEN /\ HasPart(AfterLast(parse.response, Arrow), parse.parsed.s)
             /\ CleanEnds(parse.parsed.s)
        ELSE parse.parsed.s = Strip(parse.response, Whitespace)

\* ---------------------------------------------------- claims: concurrency

\* C11: in every interleaving of fix_prompt with compile_with_examples on
\* one instance, the predictor fix_prompt invokes is the plain predictor or
\* a predictor that compile_with_examples stored in compiled_module: the one
\* fix_prompt saw when it tested the field, or one stored since. It is never
\* None and never a predictor that was not stored.
C11_InvokesInstalledPredictor ==
    fixing.pc = "invoked" =>
        \/ fixing.invoked = "fix_prompt_module"
        \/ /\ fixing.invoked \in {"compiled_1", "compiled_2"}
           /\ fixing.invoked \in installed
           /\ fixing.first \in {"compiled_1", "compiled_2"}
           /\ fixing.first \in installed

\* fix_prompt tested compiled_module when it held one optimized predictor and
\* invoked the other, stored by a compile in between
C11_Witness ==
    /\ fixing.pc = "invoked"
    /\ fixing.first = "compiled_1"
    /\ fixing.invoked = "compiled_2"

\* C12 (as claimed): in every interleaving of add_example with
\* get_example_count, the dict returned has total = programming + speech +
\* technical. Nothing serializes the two: an append between the reading of a
\* category's length and the concatenation makes the total larger than the
\* sum.
C12_TotalIsSum ==
    counting.pc = "returning" =>
        counting.total = counting.programming + counting.speech + counting.technical

\* ------------------------------------------------------- claims: adapter

\* the entries of a messages list that are not system entries, in order
RECURSIVE Turns(_)
Turns(list) ==
    IF list = <<>> THEN <<>>
    ELSE IF list[1].role = "system" THEN Turns(Tail(list))
         ELSE <<list[1]>> \o Turns(Tail(list))

\* the positions of the system entries of a messages list
SystemEntries(list) == {i \in 1..Len(list) : list[i].role = "system"}

\* C21: called with messages, ClaudeLM makes one provider call whose turns
\* are the non-system entries in their order and whose system instruction is
\* the content of the last system entry (no system instruction when there is
\* no system entry, and none of any text when that content is empty); called
\* with a prompt only, it makes one provider call with the single user turn
\* holding the prompt and no system instruction.
C21_RequestShape ==
    adapter.call.op = "__call__" =>
        LET c == adapter.call
            list == c.messages.list
            sys == SystemEntries(list)
            last == CHOOSE i \in sys : \A j \in sys : j <= i
        IN  /\ ~c.messages.none =>
                /\ Len(c.requests) = 1
                /\ c.requests[1].messages = Turns(list)
                /\ sys = {} => c.requests[1].system.none
                /\ (sys # {} /\ list[last].content # <<>>)
                      => c.requests[1].system = PyStr(list[last].content)
                /\ (sys # {} /\ list[last].content = <<>>)
                      => c.requests[1].system.s = <<>>
            /\ (c.messages.none /\ ~c.prompt.none) =>
                /\ Len(c.requests) = 1
                /\ c.requests[1].messages = <<[role |-> "user", content |-> c.prompt.s]>>
                /\ c.requests[1].system.none

\* a call with an assistant entry between two system entries of different
\* content: the second one's content is the system instruction
C21_Witness ==
    /\ adapter.call.op = "__call__"
    /\ Len(adapter.call.messages.list) > 2
    /\ adapter.call.messages.list[1] = [role |-> "system", content |-> <<Space>>]
    /\ adapter.call.messages.list[2].role = "assistant"
    /\ adapter.call.messages.list[3] = [role |-> "system", content |-> <<Letter, Letter>>]
    /\ adapter.call.requests[1].system = PyStr(<<Letter, Letter>>)
    /\ Len(adapter.call.requests[1].messages) = 1

\* C22 (as claimed): called with neither prompt nor messages, ClaudeLM makes
\* no provider call and fails with the invalid-request error (ValueError),
\* not with the error it uses for provider failures. The ValueError is
\* raised inside the try block and leaves as the RuntimeError.
C22_InvalidRequestSurfaces ==
    (adapter.call.op = "__call__" /\ adapter.call.prompt.none
        /\ adapter.call.messages.none) =>
        /\ adapter.call.requests = <<>>
        /\ adapter.call.exc.type = "ValueError"
        /\ adapter.call.exc # Exc("RuntimeError", "Error calling Claude API")

\* C24: a ClaudeLM call makes at most one provider call; when that call
\* raises, the ClaudeLM call raises RuntimeError "Error calling Claude API"
\* and returns no text; the overrides of a call go into its provider call;
\* and no call changes model, temperature or max_tokens of the instance.
C24_OneCallConfigKept ==
    [][adapter'.call.op = "__call__" =>
          /\ Len(adapter'.call.requests) <= 1
          /\ Len(adapter'.call.params) = Len(adapter'.call.requests)
          /\ (adapter'.call.requests # <<>> /\ adapter'.call.provider.raises)
                => /\ adapter'.call.exc = Exc("RuntimeError", "Error calling Claude API")
                   /\ adapter'.call.text.none
          /\ (adapter'.call.requests # <<>> /\ adapter'.call.kwargs.temperature # "absent")
                => adapter'.call.params[1].temperature = adapter'.call.kwargs.temperature
          /\ (adapter'.call.requests # <<>> /\ adapter'.call.kwargs.temperature = "absent")
                => adapter'.call.params[1].temperature = adapter.config.temperature
          /\ adapter'.config = adapter.config
          /\ adapter'.config = [model |-> "claude-3-haiku-20240307",
                                temperature |-> "0.7", max_tokens |-> "4096"]
      ]_vars

\* a call with both overrides whose provider call raised
C24_Witness ==
    /\ adapter.call.op = "__call__"
    /\ adapter.call.kwargs = [temperature |-> "0.3", max_tokens |-> "256"]
    /\ Len(adapter.call.requests) = 1
    /\ adapter.call.provider.raises
    /\ adapter.call.exc.type = "RuntimeError"
    /\ adapter.config.temperature = "0.7"

\* C29: called with both prompt and messages, ClaudeLM is not rejected: it
\* makes the provider call, whose turns are the non-system entries of
\* messages; the prompt is the content of no turn; and the call fails only
\* if the provider call does.
C29_PromptIgnored ==
    (adapter.call.op = "__call__" /\ ~adapter.call.prompt.none
        /\ ~adapter.call.messages.none) =>
        /\ Len(adapter.call.requests) = 1
        /\ Len(adapter.call.requests[1].messages) = Len(Turns(adapter.call.messages.list))
        /\ \A i \in 1..Len(adapter.call.requests[1].messages) :
               adapter.call.requests[1].messages[i].content # adapter.call.prompt.s
        /\ adapter.call.exc # NoExc => adapter.call.provider.raises

\* a call with a prompt and a user entry returned the provider's text
C29_Witness ==
    /\ adapter.call.op = "__call__"
    /\ adapter.call.prompt = PyStr(<<Letter>>)
    /\ adapter.call.messages.list = <<[role |-> "user", content |-> <<Letter, Letter>>]>>
    /\ adapter.call.requests[1].messages = adapter.call.messages.list
    /\ adapter.call.text = PyStr(<<Letter>>)

\* C23: when the provider call of the fallback tier succeeds, the text
\* ClaudeLM returns is that of the first content segment, and the empty
\* string when there is no segment; in that case fix_prompt returns the empty
\* string and raises nothing.
C23_FirstSegmentOrEmpty ==
    (call.op = "fix_prompt" /\ call.requests # <<>> /\ ~call.provider.raises) =>
        /\ ~call.lm_response.none
        /\ Len(call.provider.content) > 0 => call.lm_response.s = call.provider.content[1]
        /\ Len(call.provider.content) = 0 =>
              /\ call.lm_response = PyStr(<<>>)
              /\ call.result = PyStr(<<>>)
              /\ call.exc = NoExc

\* the predictor raised, the provider answered without content segments, and
\* fix_prompt returned the empty string
C23_Witness ==
    /\ call.op = "fix_prompt"
    /\ call.pred_raised
    /\ Len(call.requests) = 1
    /\ ~call.provider.raises
    /\ call.provider.content = <<>>
    /\ call.result = PyStr(<<>>)
    /\ call.exc = NoExc

\* the messages of the model that contain the text "Error fixing prompt"
ErrorFixingPromptMessages == {"Error fixing prompt"}

\* C25 (as claimed): when the structured predictor raises on a fixer with
\* optimization off and no language model configured, fix_prompt raises a
\* RuntimeError whose message contains "Error fixing prompt". The message
\* the code raises is "Error in fallback prompt fixing: ...".
C25_ErrorFixingPrompt ==
    (FixedNonBlank /\ call.pred_raised /\ ~use_optimization /\ settings_lm = "None") =>
        /\ call.exc.type = "RuntimeError"
        /\ call.exc.msg \in ErrorFixingPromptMessages

\* ------------------------------------------------------ claims: aliasing

\* C28: get_examples_by_category of a real category hands out the corpus's
\* own list: the caller then holds that very list, an add_example to the
\* category shows in what the caller holds, and a caller changing what it
\* holds changes that corpus list (and only that one) and the total count by
\* as much. What get_all_examples, get_examples_by_category("all") and
\* get_examples_by_category of an unknown name return is none of the corpus
\* lists, and changing it changes none of them.
C28_RealCategoryIsAliased ==
    [][/\ (cop'.op = "get_examples_by_category"
             /\ cop'.category \in {"programming", "speech", "technical"})
          => /\ held'.ref = CategoryList(cop'.category)
             /\ lists' = lists
       /\ (cop'.op = "add_example" /\ cop'.exc = NoExc
             /\ held.ref = CategoryList(cop'.category))
          => /\ Len(lists'[held.ref]) = Len(lists[held.ref]) + 1
             /\ lists'[held.ref][Len(lists'[held.ref])].raw_prompt = cop'.raw_prompt
       /\ (cop'.op = "caller mutation" /\ held.ref \in CorpusLists)
          => /\ lists'[held.ref] # lists[held.ref]
             /\ \A l \in CorpusLists \ {held.ref} : lists'[l] = lists[l]
             /\ GetExampleCount(lists').total - GetExampleCount(lists).total
                    = Len(lists'[held.ref]) - Len(lists[held.ref])
       /\ (\/ cop'.op = "get_all_examples"
           \/ /\ cop'.op = "get_examples_by_category"
              /\ cop'.category \notin {"programming", "speech", "technical"})
          => /\ held'.ref \notin CorpusLists
             /\ CorpusUnchanged
       /\ (cop'.op = "caller mutation" /\ held.ref \notin CorpusLists)
          => CorpusUnchanged
      ]_vars

\* the caller appended to the list get_examples_by_category("technical")
\* returned, and the technical list of the corpus has the appended element
C28_Witness ==
    /\ cop.op = "caller mutation"
    /\ held.ref = "TECHNICAL_CORRECTIONS"
    /\ Len(lists["TECHNICAL_CORRECTIONS"]) = Len(TECHNICAL_CORRECTIONS) + 1
    /\ lists["TECHNICAL_CORRECTIONS"][Len(lists["TECHNICAL_CORRECTIONS"])] = OtherObject
    /\ GetExampleCount(lists).technical = Len(TECHNICAL_CORRECTIONS) + 1

\* ------------------------------------------------------- claims: service

\* the fields of the fixer prompt_fixer refers to, and which fixer that is
FixerStateKept ==
    /\ service'.prompt_fixer = service.prompt_fixer
    /\ use_optimization' = use_optimization
    /\ compiled_module' = compiled_module

\* the corpus in get_all_examples order, after the step
CorpusAfter ==
    lists'["PROGRAMMING_EXAMPLES"] \o lists'["SPEECH_ERROR_EXAMPLES"]
        \o lists'["TECHNICAL_CORRECTIONS"]

\* C26: POST /optimize-prompt answers 503 "DSPy not initialized" without
\* calling fix_prompt when no fixer is installed; otherwise it calls
\* fix_prompt and answers 400 when that raised ValueError (which it does
\* exactly for a blank prompt), 500 when it raised anything else, and 200
\* with the string it returned and a null confidence when it returned. The
\* corpus and the fixer's state are left as they were.
C26_OptimizeStatuses ==
    [][http'.endpoint = "/optimize-prompt" =>
          /\ service.prompt_fixer = 0 =>
                /\ http'.status = 503
                /\ http'.detail = "DSPy not initialized"
                /\ http'.fix = NoCall
          /\ service.prompt_fixer # 0 =>
                /\ http'.fix.op = "fix_prompt"
                /\ (http'.fix.exc.type = "ValueError") = BlankInput(http'.fix.raw)
                /\ http'.fix.exc.type = "ValueError" => http'.status = 400
                /\ http'.fix.exc.type \notin {"None", "ValueError"} => http'.status = 500
                /\ http'.fix.exc = NoExc =>
                      /\ http'.status = 200
                      /\ ~http'.body.none
                      /\ http'.body = http'.fix.result
                      /\ http'.confidence = "null"
          /\ CorpusUnchanged
          /\ FixerStateKept
          /\ settings_lm' = settings_lm
      ]_vars

\* the installed fixer's fallback tier failed and the request was answered 500
C26_Witness ==
    /\ http.endpoint = "/optimize-prompt"
    /\ service.prompt_fixer # 0
    /\ http.fix.pred_raised
    /\ http.fix.exc = Exc("RuntimeError", "Error in fallback prompt fixing")
    /\ http.status = 500

\* C27: POST /examples with a real category appends the example, then, if a
\* fixer is installed, calls compile_with_examples once with the whole corpus
\* including the new example, and answers 200 "Example added successfully"
\* whatever became of the compilation; with another category it answers 400
\* "Unknown category", the corpus is as before and nothing is compiled.
C27_AddThenRecompile ==
    [][http'.endpoint = "/examples" =>
          LET category == http'.added.category
              target == CategoryList(category)
          IN  IF category \in {"programming", "speech", "technical"}
              THEN /\ Len(lists'[target]) = Len(lists[target]) + 1
                   /\ lists'[target][Len(lists'[target])].raw_prompt
                          = http'.added.raw_prompt
                   /\ \A l \in CorpusLists \ {target} : lists'[l] = lists[l]
                   /\ http'.status = 200
                   /\ http'.detail = "Example added successfully"
                   /\ service.prompt_fixer = 0 => http'.compiles = <<>>
                   /\ service.prompt_fixer # 0 =>
                         /\ Len(http'.compiles) = 1
                         /\ http'.compiles[1].op = "compile_with_examples"
                         /\ http'.compiles[1].examples = CorpusAfter
              ELSE /\ http'.status = 400
                   /\ http'.detail = "Unknown category"
                   /\ CorpusUnchanged
                   /\ http'.compiles = <<>>
                   /\ FixerStateKept
      ]_vars

\* an example was added, the recompilation failed inside compile_with_examples
\* and the request was answered 200
C27_Witness ==
    /\ http.endpoint = "/examples"
    /\ http.status = 200
    /\ Len(http.compiles) = 1
    /\ http.compiles[1].failed_at = "compile"
    /\ Len(http.compiles[1].examples) > Len(PROGRAMMING_EXAMPLES)
           + Len(SPEECH_ERROR_EXAMPLES) + Len(TECHNICAL_CORRECTIONS)
    /\ ~use_optimization

\* C30: initialize_dspy returns True or False. When it returns False,
\* prompt_fixer refers to what it referred to before (an instance or None)
\* and that fixer's use_optimization and compiled_module are as before, and
\* POST /reinitialize answers 500. When it returns True, prompt_fixer is an
\* instance made by this call, on which compile_with_examples was called once
\* with the whole corpus.
C30_InstallLast ==
    [][http'.endpoint \in {"startup", "/reinitialize"} =>
          /\ http'.returned \in {"True", "False"}
          /\ http'.returned = "False" =>
                /\ FixerStateKept
                /\ http'.endpoint = "/reinitialize" => http'.status = 500
          /\ http'.returned = "True" =>
                /\ service'.prompt_fixer = service'.initialized
                /\ service'.prompt_fixer > service.initialized
                /\ Len(http'.compiles) = 1
                /\ http'.compiles[1].op = "compile_with_examples"
                /\ http'.compiles[1].examples = CorpusAfter
                /\ http'.endpoint = "/reinitialize" => http'.status = 200
          /\ CorpusUnchanged
      ]_vars

\* POST /reinitialize failed at the construction of the new fixer; the fixer
\* installed at startup, with its compiled module, is still the one in use
C30_Witness ==
    /\ http.endpoint = "/reinitialize"
    /\ http.returned = "False"
    /\ http.failed_at = "PromptFixer"
    /\ http.status = 500
    /\ service.prompt_fixer = 1
    /\ service.prompt_fixer < service.initialized
    /\ compiled_module # NoModule
    /\ use_optimization

====
